---- MODULE Spec2Model ----
(***************************************************************************)
(* Lifecycle of inorbit_connector.connector.FleetConnector: the owner      *)
(* thread calling start()/stop(), the worker threads running               *)
(* __run_connector (connect -> paced loop -> disconnect) on their own      *)
(* asyncio event loop, and the transport threads that invoke the command   *)
(* entry point registered for each robot session (handler_wrapper).        *)
(*                                                                         *)
(* Time is discrete, one tick per second.  Timers (asyncio.sleep and the   *)
(* timeout of Thread.join) count down with Tick; user callbacks take an    *)
(* arbitrary amount of time.                                               *)
(*                                                                         *)
(* Spec is the lifecycle with the command bridge.  SpecParse applies       *)
(* parse_custom_command_args of connector.py and of commands.py to a       *)
(* bounded set of Python objects.  SpecPublish is a sequence of calls of   *)
(* publish_robot_pose and publish_robot_map, before start() or while the   *)
(* loop runs.  SpecFetch is a sequence of map fetch requests and fetch      *)
(* tasks, SpecScratch the lifecycle with the temporary map directory,      *)
(* SpecWatchdog the publish methods called while time passes, SpecFleet a  *)
(* sequence of update_fleet calls.  The map fetch and the temporary        *)
(* directory follow section 4.3 of the specification.                      *)
(***************************************************************************)
EXTENDS Integers, Naturals, Sequences, FiniteSets, TLC

\* ------------------------------------------------------------------ bounds
\* number of worker threads that can exist at a time: a thread that has ended
\* gives its place to the next thread start() creates
MaxThreads == 2
\* number of execution-loop iterations one worker run may start
MaxIter == 2
\* length of the argument lists given to parse_custom_command_args
MaxArgs == 4
\* number of fetch tasks that can be in flight for one (robot id, frame id)
MaxTasks == 2
\* number of seconds without a publish that are counted
MaxElapsed == 4
\* number of robots of a fleet given to update_fleet
MaxFleet == 3

\* ------------------------------------------------------- program constants
\* self.__thread.join(timeout=5)
StopTimeout == 5
\* await asyncio.sleep(1.0) after a failed iteration
Cooldown == 1

\* config.fleet: the robots managed by the connector, in configured order
Fleet == <<"r1", "r2">>
\* threads of the transport collaborator that deliver commands
Transport == {"t1"}
\* 1.0 / self.config.update_freq in seconds, update_freq > 0
\* (models.check_positive): 1 Hz and 0.5 Hz
Intervals == {1, 2}

Workers == 1..MaxThreads

VARIABLES
    thread,      \* self.__thread: 0 is the never-started Thread of __init__
    workers,     \* per worker thread: position in __run_connector and locals
    stopEvent,   \* self.__stop_event
    curLoop,     \* self.__loop: 0 is None, w is the loop created by worker w
    loopClosed,  \* loop.close() was called on the loop self.__loop refers to
    sessions,    \* keys of self.__robot_sessions (command entry point registered)
    interval,    \* 1.0 / self.config.update_freq
    owner,       \* the thread that calls start() and stop()
    cmd,         \* per transport thread: the command invocation in progress
    hist,        \* per worker run: what has happened so far (history)
    parse,       \* an argument of parse_custom_command_args and its results
    last_published_frame_ids,  \* self.__last_published_frame_ids
    pending_map_fetches,       \* (robot id, frame id) with a fetch in progress
    pose_frame,  \* per robot: frame id of its last pose publish (history)
    pub,         \* the last call of publish_robot_pose/_map (history)
    fetch_tasks, \* per (robot id, frame id): fetch tasks submitted, not ended
    fetched_maps,  \* frame ids a fetch task has added to self.config.maps
    fetch,       \* the last fetch request or end of a fetch task (history)
    temp_map_dir,  \* self.__temp_map_dir is set: the directory exists
    config_fleet,  \* self.config.fleet: a list of RobotConfig
    robot_ids,   \* self.__robot_ids
    managed,     \* a Fleet object (fleet.py): its robot ids and its worker
    since_publish,  \* seconds since the last pose, odometry, key-value or
                    \* system-stats publish (history)
    exits        \* number of times the process was terminated (history)

\* the state of the lifecycle and of the command bridge
lifeVars == <<thread, workers, stopEvent, curLoop, loopClosed, sessions,
              interval, owner, cmd, hist>>

\* the state of map fetching, apart from pending_map_fetches
fetchVars == <<fetch_tasks, fetched_maps, fetch, temp_map_dir>>

\* the fleet configuration
fleetVars == <<config_fleet, robot_ids, managed>>

\* what an observer of the process sees of its publishes and its end
watchVars == <<since_publish, exits>>

\* the state of argument parsing, of pose and map publishing, of map
\* fetching and of the fleet configuration
dataVars == <<parse, last_published_frame_ids, pending_map_fetches,
              pose_frame, pub, fetchVars, fleetVars, watchVars>>

vars == <<thread, workers, stopEvent, curLoop, loopClosed, sessions,
          interval, owner, cmd, hist, parse, last_published_frame_ids,
          pending_map_fetches, pose_frame, pub, fetch_tasks, fetched_maps,
          fetch, temp_map_dir, config_fleet, robot_ids, managed,
          since_publish, exits>>

\* ----------------------------------------------------------------- helpers
NoWorker == [pc |-> "unborn", cb |-> "none", pace |-> 0, cool |-> 0, pend |-> FALSE]

NoHist == [connectCalls |-> 0, connectDone |-> FALSE, sessionsDone |-> FALSE,
           execCalls |-> 0, execFailed |-> 0, teardown |-> FALSE,
           disconnectCalls |-> 0, disconnectDone |-> FALSE,
           disconnectOn |-> {}, cause |-> "none"]

\* ------------------------------------------------- exceptions and results
\* an exception object: the module and name of its class, str(exception), and
\* the attributes execution_status_details and stderr a CommandFailure has
NoException == [module |-> "", name |-> "", str |-> "",
                execution_status_details |-> "", stderr |-> ""]

\* connector.CommandFailure(execution_status_details, stderr):
\* super().__init__(execution_status_details) makes it the message
CommandFailure(execution_status_details, stderr) ==
    [module |-> "inorbit_connector.connector", name |-> "CommandFailure",
     str |-> execution_status_details,
     execution_status_details |-> execution_status_details, stderr |-> stderr]

\* commands.CommandFailure(execution_status_details, stderr): a class of the
\* same name and body defined in inorbit_connector/commands.py
commands_CommandFailure(execution_status_details, stderr) ==
    [module |-> "inorbit_connector.commands", name |-> "CommandFailure",
     str |-> execution_status_details,
     execution_status_details |-> execution_status_details, stderr |-> stderr]

\* an exception of another class raised with the message msg ("" for none)
OtherException(name, msg) ==
    [module |-> "builtins", name |-> name, str |-> msg,
     execution_status_details |-> "", stderr |-> ""]

\* the arguments of one call of options["result_function"]
NoReport == [code |-> "none", execution_status_details |-> "", stderr |-> ""]

\* a transport thread and the handler task of its command: ranOn is the thread
\* that executed the handler (0 none, w the worker thread w, -1 the caller)
\* exc is the exception the handler (or the submission) raised, own the number
\* of calls of options["result_function"] the handler made itself, results
\* the number of calls _handle_command_exception made and report the
\* arguments of the last one
NoCmd == [pc |-> "idle", task |-> "none", loop |-> 0, out |-> "none", runs |-> 0,
          ranOn |-> 0, results |-> 0, submitFailed |-> FALSE, stale |-> FALSE,
          exc |-> NoException, own |-> 0, report |-> NoReport]

\* the record of a worker thread whose target has ended
Ended(how) == [pc |-> how, cb |-> "none", pace |-> 0, cool |-> 0, pend |-> FALSE]

\* the owner thread: position in stop(), time left of join(timeout=5), and the
\* outcome of its last start() and stop() calls in the current run
NoOwner == [pc |-> "idle", joinLeft |-> 0, lastStart |-> "none",
            stopResult |-> "none", stoppedAtCall |-> FALSE]

\* threading.Thread.is_alive(): started and target not yet finished
is_alive(t) == t # 0 /\ workers[t].pc \notin {"unborn", "exited", "crashed"}

\* the loop self.__loop refers to is inside run_until_complete at a suspension
\* point of its worker, so other tasks scheduled on it make progress
LoopRunning(l) ==
    /\ l # 0
    /\ l = curLoop
    /\ workers[l].pc \in {"connect", "exec", "cooldown", "user_disc"}

\* threading.Thread(target=self.__run_connector): the new thread object takes
\* the first place not held by a live thread
FreeSlots == {w \in Workers : ~is_alive(w)}
NewThread == CHOOSE w \in FreeSlots : \A v \in FreeSlots : w <= v

\* ------------------------------------------ parse_custom_command_args
\* a Python object: the name of its type, the repr of a scalar, the items of
\* a container
Scalar(type, repr) == [type |-> type, repr |-> repr, items |-> <<>>]
Container(type, items) == [type |-> type, repr |-> "", items |-> items]
NoValue == Scalar("", "")

\* the elements of an argument list: argument names and values of the types
\* the command messages and the tests use, and a list, which has no hash
Elements ==
    { Scalar("str", "x"), Scalar("str", "y"), Scalar("int", "1"),
      Scalar("bool", "True"), Container("list", <<>>) }

\* the sequences over S of length 0..n
RECURSIVE SeqsUpTo(_, _)
SeqsUpTo(S, n) ==
    IF n = 0 THEN {<<>>}
    ELSE LET shorter == SeqsUpTo(S, n - 1)
         IN shorter \cup {Append(q, x) : q \in {r \in shorter : Len(r) = n - 1},
                                         x \in S}

\* the second element of the top-level list: lists and tuples of elements, a
\* string, a bytes object and None
ArgsValues ==
    {Container(type, items) : type \in {"list", "tuple"},
                              items \in SeqsUpTo(Elements, MaxArgs)}
    \cup {Scalar("str", "k=v"), Scalar("bytes", "b'k=v'"),
          Scalar("NoneType", "None")}

\* the first element: a string or a number
ScriptValues == {Scalar("str", "script.sh"), Scalar("int", "123")}

\* the arguments parse_custom_command_args is called with: lists of one, two
\* and three elements, a string and a two-element tuple
ParseInputs ==
    {Container("list", <<script, args>>) :
         script \in ScriptValues, args \in ArgsValues}
    \cup {Container("list", <<Scalar("str", "script.sh")>>),
          Container("list", <<Scalar("str", "script.sh"),
                              Container("list", <<Scalar("str", "x")>>),
                              Scalar("str", "extra")>>),
          Scalar("str", "not a list"),
          Container("tuple", <<Scalar("str", "script.sh"),
                               Container("list", <<>>)>>)}

\* str(n) of a length
IntStr(n) == <<"0", "1", "2", "3", "4", "5", "6", "7", "8", "9">>[n + 1]

\* list(x) succeeds: x is iterable
Iterable(x) == x.type \in {"list", "tuple"}

\* hash(x) succeeds: lists have no hash
Hashable(x) == x.type # "list"

EmptyDict == [k \in {} |-> NoValue]

\* the outcome of one call: the returned tuple or the raised exception
Returns(script_name, params) ==
    [kind |-> "return", exc |-> NoException,
     script_name |-> script_name, params |-> params]
Raises(exception) ==
    [kind |-> "raise", exc |-> exception,
     script_name |-> NoValue, params |-> EmptyDict]
NotCalled ==
    [kind |-> "none", exc |-> NoException,
     script_name |-> NoValue, params |-> EmptyDict]

\* the dict comprehension in which the first value of a key wins
RECURSIVE dict_comprehension_first_wins(_, _)
dict_comprehension_first_wins(args_list, n) ==
    IF n = 0 THEN EmptyDict
    ELSE LET d == dict_comprehension_first_wins(args_list, n - 1)
             k == args_list[2 * n - 1]
             v == args_list[2 * n]
         IN [x \in DOMAIN d \cup {k} |-> IF x \in DOMAIN d THEN d[x] ELSE v]

\* {k: v for k, v in zip(args_list[::2], args_list[1::2])} after its first n
\* pairs: each pair is stored in turn, replacing the value a key already has
RECURSIVE dict_comprehension(_, _)
dict_comprehension(args_list, n) ==
    IF n = 0 THEN EmptyDict
    ELSE LET d == dict_comprehension(args_list, n - 1)
             k == args_list[2 * n - 1]
             v == args_list[2 * n]
         IN [x \in DOMAIN d \cup {k} |-> IF x = k THEN v ELSE d[x]]

\* the body shared by parse_custom_command_args of connector.py and of
\* commands.py; module is the module whose CommandFailure the copy raises
parse_args(custom_command_args, module) ==
    IF custom_command_args.type # "list"
    THEN Raises(OtherException("ValueError",
             "Expected custom command arguments to be a list, got <class '"
             \o custom_command_args.type \o "'>"))
    ELSE IF Len(custom_command_args.items) # 2
    THEN Raises(OtherException("ValueError",
             "Expected custom command arguments to be a list with two elements."))
    ELSE LET script_name == custom_command_args.items[1]
             args_list_raw == custom_command_args.items[2]
         IN IF script_name.type # "str"
            THEN Raises(OtherException("ValueError",
                                       "Script name must be a string"))
            ELSE IF args_list_raw.type \in {"str", "bytes"}
                    \/ ~Iterable(args_list_raw)
            THEN Raises(OtherException("ValueError",
                     "Arguments must be a list-like container"))
            ELSE LET args_list == args_list_raw.items
                 IN IF Len(args_list) % 2 # 0
                    THEN Raises(
                        [CommandFailure(
                             "Invalid script arguments provided",
                             "The script arguments must be a list of key-value pairs, got "
                             \o IntStr(Len(args_list)) \o " elements")
                         EXCEPT !.module = module])
                    ELSE IF \E i \in 1..(Len(args_list) \div 2) :
                                ~Hashable(args_list[2 * i - 1])
                    THEN Raises(OtherException("TypeError",
                                               "unhashable type: 'list'"))
                    ELSE Returns(script_name,
                             dict_comprehension(args_list,
                                                Len(args_list) \div 2))

\* connector.parse_custom_command_args
parse_custom_command_args(custom_command_args) ==
    parse_args(custom_command_args, "inorbit_connector.connector")

\* commands.parse_custom_command_args
commands_parse_custom_command_args(custom_command_args) ==
    parse_args(custom_command_args, "inorbit_connector.commands")

\* no call of parse_custom_command_args has been made
NoParse == [input |-> NoValue, connector |-> NotCalled, commands |-> NotCalled]

\* ---------------------------------------------- pose and map publishing
\* the robots of the fleet
Robots == {Fleet[i] : i \in DOMAIN Fleet}

\* keys of self.config.maps: the frame ids that have a map configured
ConfigMaps == {"frameA", "frameB"}

\* the frame ids a map fetch is requested for: none of them is configured
FetchFrames == {"frameC", "frameD"}

\* the frame ids given to the publish methods: the configured ones, one that
\* has no map, and None, the default of publish_robot_pose
Frames == ConfigMaps \cup {"frameC", "None"}

\* self.config.maps: the configured maps and the ones fetched since
config_maps == ConfigMaps \cup fetched_maps

\* the last call of a publish method: its arguments, what
\* self.__last_published_frame_ids held for the robot when it began, the frame
\* id of the robot's previous pose publish, the session methods it called in
\* order, the number of coroutines it submitted to self.__loop and whether
\* that loop was running
NoPub == [op |-> "none", robot_id |-> "", frame_id |-> "", last |-> "",
          pose_before |-> "", published |-> <<>>, scheduled |-> 0,
          loop_running |-> FALSE]

\* the last request of a map fetch or the last end of a fetch task: the
\* operation, its arguments, whether self.__loop was running, whether the
\* pair was pending and how many tasks were in flight for it when it
\* began, the number of tasks it submitted, what fetch_robot_map did, the maps
\* of the configuration when it began, the session methods called, how many
\* times the pair was taken out of the pending set and whether the request
\* raised to its caller
NoFetch == [op |-> "none", robot_id |-> "", frame_id |-> "",
            loop_running |-> FALSE, was_pending |-> FALSE, in_flight |-> 0,
            scheduled |-> 0, result |-> "", maps_before |-> {},
            published |-> <<>>, removed |-> 0, raised |-> FALSE]

\* what the fetch_robot_map callback of a fetch task does: it returns a map,
\* it returns None or it raises
FetchResults == {"map", "none", "raise"}

\* ------------------------------------------------------------------- Init
\* the connector after __init__
LifeInit ==
    /\ thread = 0
    /\ workers = [w \in Workers |-> NoWorker]
    /\ stopEvent = FALSE
    /\ curLoop = 0
    /\ loopClosed = FALSE
    /\ sessions = {}
    /\ interval \in Intervals
    /\ owner = NoOwner
    /\ cmd = [t \in Transport |-> NoCmd]
    /\ hist = [w \in Workers |-> NoHist]

\* no pose or map published yet
PublishInit ==
    /\ last_published_frame_ids = [r \in Robots |-> "None"]
    /\ pending_map_fetches = {}
    /\ pose_frame = [r \in Robots |-> "NoPose"]
    /\ pub = NoPub

\* a RobotConfig: of its fields the connector reads robot_id
RobotConfig(robot_id) == [robot_id |-> robot_id, cameras |-> <<>>]

\* [robot.robot_id for robot in fleet]
RobotIdsOf(fleet) == [i \in DOMAIN fleet |-> fleet[i].robot_id]

\* no map fetch requested yet, no temporary directory
FetchInit ==
    /\ fetch_tasks = [k \in Robots \X FetchFrames |-> 0]
    /\ fetched_maps = {}
    /\ fetch = NoFetch
    /\ temp_map_dir = FALSE

\* the fleet of the configuration given to __init__, which calls update_fleet
FleetInit ==
    /\ config_fleet = [i \in DOMAIN Fleet |-> RobotConfig(Fleet[i])]
    /\ robot_ids = Fleet

\* Fleet(robot_ids, config) after __init__: one ManagedConnector per robot id
\* in self._connectors, no thread yet.  Of its worker: the position in
\* __run_fleet, what the connect coroutine of each connector did, what the
\* user callback _connect() did and whether __connect raised
NewFleet(ids) ==
    [robot_ids |-> ids, pc |-> "constructed",
     connected |-> [r \in ids |-> "none"],
     user_connect |-> "none", raised |-> FALSE]

\* no Fleet object manages robots
ManagedInit == managed = NewFleet({})

\* the process has just been started
WatchInit ==
    /\ since_publish = 0
    /\ exits = 0

Init ==
    /\ LifeInit
    /\ parse = NoParse
    /\ PublishInit
    /\ FetchInit
    /\ FleetInit
    /\ ManagedInit
    /\ WatchInit

\* ------------------------------------------------------- owner: start()
\* start() without the is_alive() test
start_unguarded ==
    /\ owner.pc = "idle"
    /\ FreeSlots # {}
    /\ stopEvent' = FALSE
    /\ thread' = NewThread
    /\ workers' = [workers EXCEPT ![NewThread] = [NoWorker EXCEPT !.pc = "start"]]
    /\ hist' = [w \in Workers |-> NoHist]
    /\ owner' = [NoOwner EXCEPT !.lastStart = "spawned"]
    /\ UNCHANGED <<curLoop, loopClosed, sessions, interval, cmd>>
    /\ UNCHANGED dataVars

\* start() that leaves the stop flag as the previous stop() set it
start_keeping_flag ==
    /\ owner.pc = "idle"
    /\ IF ~is_alive(thread)
       THEN /\ FreeSlots # {}
            /\ thread' = NewThread
            /\ workers' = [workers EXCEPT ![NewThread] = [NoWorker EXCEPT !.pc = "start"]]
            /\ hist' = [w \in Workers |-> NoHist]
            /\ owner' = [NoOwner EXCEPT !.lastStart = "spawned"]
            /\ UNCHANGED stopEvent
       ELSE /\ owner' = [owner EXCEPT !.lastStart = "noop"]
            /\ UNCHANGED <<stopEvent, thread, workers, hist>>
    /\ UNCHANGED <<curLoop, loopClosed, sessions, interval, cmd>>
    /\ UNCHANGED dataVars

\* FleetConnector.start
start ==
    /\ owner.pc = "idle"
    /\ IF ~is_alive(thread)
       THEN /\ FreeSlots # {}
            /\ stopEvent' = FALSE
            /\ thread' = NewThread
            /\ workers' = [workers EXCEPT ![NewThread] = [NoWorker EXCEPT !.pc = "start"]]
            /\ hist' = [w \in Workers |-> NoHist]
            /\ owner' = [NoOwner EXCEPT !.lastStart = "spawned"]
       ELSE /\ owner' = [owner EXCEPT !.lastStart = "noop"]
            /\ UNCHANGED <<stopEvent, thread, workers, hist>>
    /\ UNCHANGED <<curLoop, loopClosed, sessions, interval, cmd>>
    /\ UNCHANGED dataVars

\* ------------------------------------------------------- owner: stop()
\* stop() that also cancels the execution-loop callback in flight
stop_set_preempting ==
    /\ owner.pc = "idle"
    /\ stopEvent' = TRUE
    /\ thread # 0
    /\ owner' = [owner EXCEPT !.pc = "join", !.joinLeft = StopTimeout,
                              !.stopResult = "none",
                              !.stoppedAtCall = ~is_alive(thread)]
    /\ workers' = [workers EXCEPT ![thread] =
                     IF @.cb = "running"
                     THEN [@ EXCEPT !.pc = "disc_sessions", !.cb = "none"]
                     ELSE @]
    /\ UNCHANGED <<thread, curLoop, loopClosed, sessions, interval,
                   cmd, hist>>
    /\ UNCHANGED dataVars

\* FleetConnector.stop, up to the call of join: join() of a thread that was
\* never started raises RuntimeError
stop_set ==
    /\ owner.pc = "idle"
    /\ stopEvent' = TRUE
    /\ IF thread = 0
       THEN owner' = [owner EXCEPT !.stopResult = "RuntimeError",
                                   !.stoppedAtCall = TRUE]
       ELSE owner' = [owner EXCEPT !.pc = "join", !.joinLeft = StopTimeout,
                                   !.stopResult = "none",
                                   !.stoppedAtCall = ~is_alive(thread)]
    /\ UNCHANGED <<thread, workers, curLoop, loopClosed, sessions,
                   interval, cmd, hist>>
    /\ UNCHANGED dataVars

\* self.__thread.join(timeout=5) returns: the thread ended or the timeout expired
stop_join ==
    /\ owner.pc = "join"
    /\ ~is_alive(thread) \/ owner.joinLeft = 0
    /\ owner' = [owner EXCEPT !.pc = "check"]
    /\ UNCHANGED <<thread, workers, stopEvent, curLoop, loopClosed,
                   sessions, interval, cmd, hist>>
    /\ UNCHANGED dataVars

\* stop() without the is_alive() test after join
stop_check_silent ==
    /\ owner.pc = "check"
    /\ owner' = [owner EXCEPT !.pc = "idle", !.joinLeft = 0,
                              !.stopResult = "returned"]
    /\ UNCHANGED <<thread, workers, stopEvent, curLoop, loopClosed,
                   sessions, interval, cmd, hist>>
    /\ UNCHANGED dataVars

\* if self.__thread.is_alive(): raise Exception("Thread did not stop in time")
stop_check ==
    /\ owner.pc = "check"
    /\ owner' = [owner EXCEPT !.pc = "idle", !.joinLeft = 0,
                              !.stopResult = IF is_alive(thread) THEN "raised"
                                             ELSE "returned"]
    /\ UNCHANGED <<thread, workers, stopEvent, curLoop, loopClosed,
                   sessions, interval, cmd, hist>>
    /\ UNCHANGED dataVars

\* ------------------------------------------------ worker: __run_connector
\* __run_connector that clears the stop flag itself when it begins
run_connector_begin_clearing(w) ==
    /\ workers[w].pc = "start"
    /\ curLoop' = w
    /\ loopClosed' = FALSE
    /\ stopEvent' = FALSE
    /\ workers' = [workers EXCEPT ![w].pc = "connect"]
    /\ hist' = [hist EXCEPT ![w].connectCalls = @ + 1]
    /\ cmd' = [t \in Transport |->
                 IF cmd[t].task \in {"queued", "running"}
                 THEN [cmd[t] EXCEPT !.stale = TRUE]
                 ELSE cmd[t]]
    /\ UNCHANGED <<thread, sessions, interval, owner>>
    /\ UNCHANGED dataVars

\* self.__loop = asyncio.new_event_loop(); run_until_complete(self.__connect())
\* enters the user callback _connect().  The loop self.__loop referred to
\* before is never run again: the handlers still queued on it are stale.
run_connector_begin(w) ==
    /\ workers[w].pc = "start"
    /\ curLoop' = w
    /\ loopClosed' = FALSE
    /\ workers' = [workers EXCEPT ![w].pc = "connect"]
    /\ hist' = [hist EXCEPT ![w].connectCalls = @ + 1]
    /\ cmd' = [t \in Transport |->
                 IF cmd[t].task \in {"queued", "running"}
                 THEN [cmd[t] EXCEPT !.stale = TRUE]
                 ELSE cmd[t]]
    /\ UNCHANGED <<thread, stopEvent, sessions, interval, owner>>
    /\ UNCHANGED dataVars

\* __connect inside the try/finally: a failed connect runs __disconnect
connect_user_in_try(w, out) ==
    /\ workers[w].pc = "connect"
    /\ IF out = "ok"
       THEN /\ workers' = [workers EXCEPT ![w].pc = "sessions"]
            /\ hist' = [hist EXCEPT ![w].connectDone = TRUE]
       ELSE /\ workers' = [workers EXCEPT ![w].pc = "disc_sessions"]
            /\ hist' = [hist EXCEPT ![w].cause = "connect"]
    /\ UNCHANGED <<thread, stopEvent, curLoop, loopClosed, sessions,
                   interval, owner, cmd>>
    /\ UNCHANGED dataVars

\* await self._connect() returns or raises; an exception leaves __connect and
\* run_until_complete, which __run_connector calls outside of any try
connect_user(w, out) ==
    /\ workers[w].pc = "connect"
    /\ IF out = "ok"
       THEN /\ workers' = [workers EXCEPT ![w].pc = "sessions"]
            /\ hist' = [hist EXCEPT ![w].connectDone = TRUE]
       ELSE /\ workers' = [workers EXCEPT ![w] = Ended("crashed")]
            /\ hist' = [hist EXCEPT ![w].cause = "connect"]
    /\ UNCHANGED <<thread, stopEvent, curLoop, loopClosed, sessions,
                   interval, owner, cmd>>
    /\ UNCHANGED dataVars

\* __initialize_sessions: __initialize_session gets the session of each robot
\* of the fleet from the pool, in order, and registers handler_wrapper on it;
\* the first n sessions are created and creating the next one raises
\* (n = Len(Fleet): none raises).  Then __connect returns, the camera feeds
\* are registered and run_until_complete(self.__run_loop()) is entered.
initialize_sessions(w, n) ==
    /\ workers[w].pc = "sessions"
    /\ sessions' = sessions \cup {Fleet[k] : k \in 1..n}
    /\ IF n = Len(Fleet)
       THEN /\ workers' = [workers EXCEPT ![w].pc = "loop_check"]
            /\ hist' = [hist EXCEPT ![w].sessionsDone = TRUE]
       ELSE /\ workers' = [workers EXCEPT ![w] = Ended("crashed")]
            /\ hist' = [hist EXCEPT ![w].cause = "sessions"]
    /\ UNCHANGED <<thread, stopEvent, curLoop, loopClosed, interval,
                   owner, cmd>>
    /\ UNCHANGED dataVars

\* ------------------------------------------------------ worker: __run_loop
\* __run_connector without the finally block: the stop request ends the target
run_loop_check_no_finally(w) ==
    /\ workers[w].pc = "loop_check"
    /\ IF stopEvent
       THEN /\ workers' = [workers EXCEPT ![w].pc = "close"]
            /\ hist' = hist
       ELSE /\ hist[w].execCalls < MaxIter
            /\ workers' = [workers EXCEPT ![w].pc = "exec", ![w].cb = "running",
                                          ![w].pace = interval]
            /\ hist' = [hist EXCEPT ![w].execCalls = @ + 1]
    /\ UNCHANGED <<thread, stopEvent, curLoop, loopClosed, sessions,
                   interval, owner, cmd>>
    /\ UNCHANGED dataVars

\* while not self.__stop_event.is_set(): start gather(_execution_loop(), sleep)
\* else leave the loop and enter the finally block of __run_connector
run_loop_check(w) ==
    /\ workers[w].pc = "loop_check"
    /\ IF stopEvent
       THEN /\ workers' = [workers EXCEPT ![w].pc = "disc_sessions"]
            /\ hist' = hist
       ELSE /\ hist[w].execCalls < MaxIter
            /\ workers' = [workers EXCEPT ![w].pc = "exec", ![w].cb = "running",
                                          ![w].pace = interval]
            /\ hist' = [hist EXCEPT ![w].execCalls = @ + 1]
    /\ UNCHANGED <<thread, stopEvent, curLoop, loopClosed, sessions,
                   interval, owner, cmd>>
    /\ UNCHANGED dataVars

\* __run_loop without the try/except around gather: an error ends the loop
execution_loop_end_uncaught(w, out) ==
    /\ workers[w].pc = "exec"
    /\ workers[w].cb = "running"
    /\ CASE out = "ok" ->
              /\ workers' = [workers EXCEPT ![w].cb = "done"]
              /\ hist' = hist
         [] out = "exc" ->
              /\ workers' = [workers EXCEPT ![w].pc = "disc_sessions",
                                            ![w].cb = "none"]
              /\ hist' = [hist EXCEPT ![w].execFailed = @ + 1]
         [] OTHER ->
              /\ workers' = [workers EXCEPT ![w].pc = "disc_sessions",
                                            ![w].cb = "none", ![w].pend = TRUE]
              /\ hist' = hist
    /\ UNCHANGED <<thread, stopEvent, curLoop, loopClosed, sessions,
                   interval, owner, cmd>>
    /\ UNCHANGED dataVars

\* self._execution_loop() ends: it returns, raises an Exception (gather
\* propagates it at once, the sleep keeps running; caught, cooldown), or
\* raises a BaseException such as CancelledError (not caught by `except
\* Exception`, neither in __run_loop nor in __run_connector)
execution_loop_end(w, out) ==
    /\ workers[w].pc = "exec"
    /\ workers[w].cb = "running"
    /\ CASE out = "ok" ->
              /\ workers' = [workers EXCEPT ![w].cb = "done"]
              /\ hist' = hist
         [] out = "exc" ->
              /\ workers' = [workers EXCEPT ![w].pc = "cooldown", ![w].cb = "none",
                                            ![w].cool = Cooldown]
              /\ hist' = [hist EXCEPT ![w].execFailed = @ + 1]
         [] OTHER ->
              /\ workers' = [workers EXCEPT ![w].pc = "disc_sessions",
                                            ![w].cb = "none", ![w].pend = TRUE]
              /\ hist' = hist
    /\ UNCHANGED <<thread, stopEvent, curLoop, loopClosed, sessions,
                   interval, owner, cmd>>
    /\ UNCHANGED dataVars

\* gather returns: the callback has returned and the sleep has elapsed
gather_done(w) ==
    /\ workers[w].pc = "exec"
    /\ workers[w].cb = "done"
    /\ workers[w].pace = 0
    /\ workers' = [workers EXCEPT ![w].pc = "loop_check", ![w].cb = "none"]
    /\ UNCHANGED <<thread, stopEvent, curLoop, loopClosed, sessions,
                   interval, owner, cmd, hist>>
    /\ UNCHANGED dataVars

\* await asyncio.sleep(1.0) of the except branch has elapsed
cooldown_done(w) ==
    /\ workers[w].pc = "cooldown"
    /\ workers[w].cool = 0
    /\ workers' = [workers EXCEPT ![w].pc = "loop_check"]
    /\ UNCHANGED <<thread, stopEvent, curLoop, loopClosed, sessions,
                   interval, owner, cmd, hist>>
    /\ UNCHANGED dataVars

\* ---------------------------------------------------- worker: __disconnect
\* for session in self.__robot_sessions.values(): session.disconnect();
\* then enters the user callback _disconnect().  An exception of a session
\* leaves the finally block of __run_connector.
disconnect_sessions(w, out) ==
    /\ workers[w].pc = "disc_sessions"
    /\ IF out = "ok"
       THEN /\ workers' = [workers EXCEPT ![w].pc = "user_disc"]
            /\ hist' = [hist EXCEPT ![w].teardown = TRUE,
                                    ![w].disconnectCalls = @ + 1,
                                    ![w].disconnectOn = @ \cup {w}]
       ELSE /\ workers' = [workers EXCEPT ![w] = Ended("crashed")]
            /\ hist' = [hist EXCEPT ![w].teardown = TRUE,
                                    ![w].cause = "session_disconnect"]
    /\ UNCHANGED <<thread, stopEvent, curLoop, loopClosed, sessions,
                   interval, owner, cmd>>
    /\ UNCHANGED dataVars

\* await self._disconnect() returns or raises
disconnect_user(w, out) ==
    /\ workers[w].pc = "user_disc"
    /\ IF out = "ok"
       THEN /\ workers' = [workers EXCEPT ![w].pc = "close"]
            /\ hist' = [hist EXCEPT ![w].disconnectDone = TRUE]
       ELSE /\ workers' = [workers EXCEPT ![w] = Ended("crashed")]
            /\ hist' = [hist EXCEPT ![w].cause = "disconnect"]
    /\ UNCHANGED <<thread, stopEvent, curLoop, loopClosed, sessions,
                   interval, owner, cmd>>
    /\ UNCHANGED dataVars

\* self.__loop.close(); then the target returns, or the BaseException that
\* left the paced loop leaves the target
run_connector_close(w) ==
    /\ workers[w].pc = "close"
    /\ loopClosed' = TRUE
    /\ IF workers[w].pend
       THEN /\ workers' = [workers EXCEPT ![w] = Ended("crashed")]
            /\ hist' = [hist EXCEPT ![w].cause = "execution_loop"]
       ELSE /\ workers' = [workers EXCEPT ![w] = Ended("exited")]
            /\ hist' = hist
    /\ UNCHANGED <<thread, stopEvent, curLoop, sessions, interval,
                   owner, cmd>>
    /\ UNCHANGED dataVars

\* ------------------------------------------------------------------- time
TimerLeft(n) == IF n > 0 THEN n - 1 ELSE 0

\* one second passes: every running asyncio.sleep and join timeout counts down
Tick ==
    /\ \/ \E w \in Workers : is_alive(w) /\ (workers[w].pace > 0 \/ workers[w].cool > 0)
       \/ owner.pc = "join" /\ owner.joinLeft > 0
    /\ workers' = [w \in Workers |->
                     IF is_alive(w)
                     THEN [workers[w] EXCEPT !.pace = TimerLeft(@), !.cool = TimerLeft(@)]
                     ELSE workers[w]]
    /\ owner' = IF owner.pc = "join"
                THEN [owner EXCEPT !.joinLeft = TimerLeft(@)]
                ELSE owner
    /\ UNCHANGED <<thread, stopEvent, curLoop, loopClosed, sessions,
                   interval, cmd, hist>>
    /\ UNCHANGED dataVars

\* -------------------------------------------- transport: handler_wrapper
\* isinstance(exception, CommandFailure) inside connector.py: the name is
\* bound to the class connector.py defines
IsCommandFailure(exception) ==
    /\ exception.module = "inorbit_connector.connector"
    /\ exception.name = "CommandFailure"

GenericSummary == "An error occurred executing custom command"

\* _handle_command_exception that reports every exception with the generic
\* summary
handle_command_exception_generic(exception) ==
    [code |-> "FAILURE",
     execution_status_details |-> GenericSummary,
     stderr |-> IF exception.str # "" THEN exception.str ELSE exception.name]

\* _handle_command_exception that reports str(exception) even when empty
handle_command_exception_str(exception) ==
    IF IsCommandFailure(exception)
    THEN [code |-> "FAILURE",
          execution_status_details |-> exception.execution_status_details,
          stderr |-> exception.stderr]
    ELSE [code |-> "FAILURE",
          execution_status_details |-> GenericSummary,
          stderr |-> exception.str]

\* _handle_command_exception: the arguments of its one call of
\* options["result_function"]
handle_command_exception(exception) ==
    IF IsCommandFailure(exception)
    THEN [code |-> "FAILURE",
          execution_status_details |-> exception.execution_status_details,
          stderr |-> exception.stderr]
    ELSE [code |-> "FAILURE",
          execution_status_details |-> GenericSummary,
          stderr |-> IF exception.str # "" THEN exception.str
                     ELSE exception.name]

\* what asyncio.run_coroutine_threadsafe raises on the calling thread when
\* self.__loop is None or a closed loop
SubmitError ==
    IF curLoop = 0
    THEN OtherException("AttributeError",
             "'NoneType' object has no attribute 'call_soon_threadsafe'")
    ELSE OtherException("RuntimeError", "Event loop is closed")

\* the exceptions a registered handler raises: CommandFailure of connector.py,
\* the CommandFailure CommandModel raises in commands.py on a validation
\* error, the one parse_custom_command_args of commands.py raises on
\* ["script.sh", ["x"]], an exception with a message and one without
HandlerRaises ==
    { CommandFailure("Command execution failed", "Error details here"),
      commands_CommandFailure("Bad arguments", "1 validation error"),
      commands_parse_custom_command_args(
          Container("list", <<Scalar("str", "script.sh"),
                              Container("list", <<Scalar("str", "x")>>)>>)).exc,
      OtherException("ValueError", "Something went wrong"),
      OtherException("CustomException", "") }

\* the ways a handler ends: out is "ok" (returned), "failure" (raised a
\* CommandFailure of either module) or "exc" (raised another exception), own
\* the number of times it called options["result_function"] before that
HandlerOutcomes ==
    [out : {"ok"}, exc : {NoException}, own : {0, 1}]
    \cup [out : {"failure"},
          exc : {e \in HandlerRaises : e.name = "CommandFailure"}, own : {0, 1}]
    \cup [out : {"exc"},
          exc : {e \in HandlerRaises : e.name # "CommandFailure"}, own : {0, 1}]

\* handler_wrapper with run_coroutine_threadsafe outside the try: what it
\* raises leaves the entry point
handler_wrapper_call_unprotected(t) ==
    /\ cmd[t].pc \in {"idle", "returned"}
    /\ sessions # {}
    /\ IF curLoop = 0 \/ loopClosed
       THEN cmd' = [cmd EXCEPT ![t] =
                [NoCmd EXCEPT !.pc = "propagated",
                              !.loop = curLoop,
                              !.submitFailed = TRUE,
                              !.exc = SubmitError]]
       ELSE cmd' = [cmd EXCEPT ![t] = [NoCmd EXCEPT !.pc = "blocked",
                                                    !.loop = curLoop,
                                                    !.task = "queued"]]
    /\ UNCHANGED <<thread, workers, stopEvent, curLoop, loopClosed,
                   sessions, interval, owner, hist>>
    /\ UNCHANGED dataVars

\* handler_wrapper is called on a transport thread: run_coroutine_threadsafe
\* (async_handler(...), self.__loop) raises when self.__loop is None or
\* closed, which the except branch hands to _handle_command_exception;
\* otherwise the handler is queued on the loop and .result() blocks
handler_wrapper_call(t) ==
    /\ cmd[t].pc \in {"idle", "returned"}
    /\ sessions # {}
    /\ IF curLoop = 0 \/ loopClosed
       THEN cmd' = [cmd EXCEPT ![t] =
                [NoCmd EXCEPT !.pc = "returned",
                              !.loop = curLoop,
                              !.submitFailed = TRUE,
                              !.exc = SubmitError,
                              !.report = handle_command_exception(SubmitError),
                              !.results = 1]]
       ELSE cmd' = [cmd EXCEPT ![t] = [NoCmd EXCEPT !.pc = "blocked",
                                                    !.loop = curLoop,
                                                    !.task = "queued"]]
    /\ UNCHANGED <<thread, workers, stopEvent, curLoop, loopClosed,
                   sessions, interval, owner, hist>>
    /\ UNCHANGED dataVars

\* the queued coroutine is run by the thread of the transport that called
\* handler_wrapper (thread 0: not a worker)
handler_start_on_caller(t) ==
    /\ cmd[t].task = "queued"
    /\ ~cmd[t].stale
    /\ LoopRunning(cmd[t].loop)
    /\ cmd' = [cmd EXCEPT ![t].task = "running", ![t].runs = @ + 1,
                          ![t].ranOn = 0]
    /\ UNCHANGED <<thread, workers, stopEvent, curLoop, loopClosed,
                   sessions, interval, owner, hist>>
    /\ UNCHANGED dataVars

\* the loop starts the queued coroutine async_handler(robot_id, name, args,
\* options) on the thread that runs the loop
handler_start(t) ==
    /\ cmd[t].task = "queued"
    /\ ~cmd[t].stale
    /\ LoopRunning(cmd[t].loop)
    /\ cmd' = [cmd EXCEPT ![t].task = "running", ![t].runs = @ + 1,
                          ![t].ranOn = cmd[t].loop]
    /\ UNCHANGED <<thread, workers, stopEvent, curLoop, loopClosed,
                   sessions, interval, owner, hist>>
    /\ UNCHANGED dataVars

\* the handler returns, raises CommandFailure, or raises another exception
\* (a CancelledError reaches .result() as concurrent.futures.CancelledError,
\* an Exception); the future gets the result
handler_end(t, res) ==
    /\ cmd[t].task = "running"
    /\ ~cmd[t].stale
    /\ LoopRunning(cmd[t].loop)
    /\ cmd' = [cmd EXCEPT ![t].task = "done", ![t].out = res.out,
                          ![t].exc = res.exc, ![t].own = res.own]
    /\ UNCHANGED <<thread, workers, stopEvent, curLoop, loopClosed,
                   sessions, interval, owner, hist>>
    /\ UNCHANGED dataVars

\* handler_wrapper without .result(): it returns once the handler is queued
handler_wrapper_return_nowait(t) ==
    /\ cmd[t].pc = "blocked"
    /\ cmd' = [cmd EXCEPT ![t].pc = "returned",
                          ![t].results = IF cmd[t].out \in {"failure", "exc"}
                                         THEN @ + 1 ELSE @,
                          ![t].report = IF cmd[t].out \in {"failure", "exc"}
                                        THEN handle_command_exception(cmd[t].exc)
                                        ELSE @]
    /\ UNCHANGED <<thread, workers, stopEvent, curLoop, loopClosed,
                   sessions, interval, owner, hist>>
    /\ UNCHANGED dataVars

\* handler_wrapper that reports SUCCESS itself when the handler returns
handler_wrapper_return_reporting(t) ==
    /\ cmd[t].pc = "blocked"
    /\ cmd[t].task = "done"
    /\ cmd' = [cmd EXCEPT ![t].pc = "returned",
                          ![t].results = @ + 1,
                          ![t].report = IF cmd[t].out \in {"failure", "exc"}
                                        THEN handle_command_exception(cmd[t].exc)
                                        ELSE [NoReport EXCEPT !.code = "SUCCESS"]]
    /\ UNCHANGED <<thread, workers, stopEvent, curLoop, loopClosed,
                   sessions, interval, owner, hist>>
    /\ UNCHANGED dataVars

\* .result() returns or raises on the transport thread: an exception goes
\* to _handle_command_exception, which calls options["result_function"] once
handler_wrapper_return(t) ==
    /\ cmd[t].pc = "blocked"
    /\ cmd[t].task = "done"
    /\ cmd' = [cmd EXCEPT ![t].pc = "returned",
                          ![t].results = IF cmd[t].out \in {"failure", "exc"}
                                         THEN @ + 1 ELSE @,
                          ![t].report = IF cmd[t].out \in {"failure", "exc"}
                                        THEN handle_command_exception(cmd[t].exc)
                                        ELSE @]
    /\ UNCHANGED <<thread, workers, stopEvent, curLoop, loopClosed,
                   sessions, interval, owner, hist>>
    /\ UNCHANGED dataVars

TransportThread(t) ==
    \/ handler_wrapper_call(t)
    \/ handler_start(t)
    \/ \E res \in HandlerOutcomes : handler_end(t, res)
    \/ handler_wrapper_return(t)

Worker(w) ==
    \/ run_connector_begin(w)
    \/ \E out \in {"ok", "exc"} : connect_user(w, out)
    \/ \E n \in 0..Len(Fleet) : initialize_sessions(w, n)
    \/ run_loop_check(w)
    \/ \E out \in {"ok", "exc", "base"} : execution_loop_end(w, out)
    \/ gather_done(w)
    \/ cooldown_done(w)
    \/ \E out \in {"ok", "exc"} : disconnect_sessions(w, out)
    \/ \E out \in {"ok", "exc"} : disconnect_user(w, out)
    \/ run_connector_close(w)

Next ==
    \/ start
    \/ stop_set
    \/ stop_join
    \/ stop_check
    \/ Tick
    \/ \E w \in Workers : Worker(w)
    \/ \E t \in Transport : TransportThread(t)

Spec == Init /\ [][Next]_vars

\* ------------------------------------- calls of parse_custom_command_args
\* parse_custom_command_args of connector.py is called with the argument
call_parse_custom_command_args ==
    /\ parse.connector.kind = "none"
    /\ parse' = [parse EXCEPT
                     !.connector = parse_custom_command_args(parse.input)]
    /\ UNCHANGED <<lifeVars, last_published_frame_ids, pending_map_fetches,
                   pose_frame, pub, fetchVars, fleetVars, watchVars>>

\* parse_custom_command_args of commands.py is called with the argument
call_commands_parse_custom_command_args ==
    /\ parse.commands.kind = "none"
    /\ parse' = [parse EXCEPT
                     !.commands = commands_parse_custom_command_args(parse.input)]
    /\ UNCHANGED <<lifeVars, last_published_frame_ids, pending_map_fetches,
                   pose_frame, pub, fetchVars, fleetVars, watchVars>>

\* every argument of ParseInputs, before the calls
InitParse ==
    /\ LifeInit
    /\ parse \in [input : ParseInputs, connector : {NotCalled},
                  commands : {NotCalled}]
    /\ PublishInit
    /\ FetchInit
    /\ FleetInit
    /\ ManagedInit
    /\ WatchInit

NextParse ==
    \/ call_parse_custom_command_args
    \/ call_commands_parse_custom_command_args

SpecParse == InitParse /\ [][NextParse]_vars


\* ------------------------------------- publish_robot_pose, publish_robot_map
\* the connector after start(): worker 1 has connected, created the sessions
\* and is inside its first _execution_loop() call
Started ==
    /\ interval \in Intervals
    /\ thread = 1
    /\ workers = [w \in Workers |->
                     IF w = 1
                     THEN [NoWorker EXCEPT !.pc = "exec", !.cb = "running",
                                           !.pace = interval]
                     ELSE NoWorker]
    /\ stopEvent = FALSE
    /\ curLoop = 1
    /\ loopClosed = FALSE
    /\ sessions = Robots
    /\ owner = [NoOwner EXCEPT !.lastStart = "spawned"]
    /\ cmd = [t \in Transport |-> NoCmd]
    /\ hist = [w \in Workers |->
                  IF w = 1
                  THEN [NoHist EXCEPT !.connectCalls = 1, !.connectDone = TRUE,
                                      !.sessionsDone = TRUE, !.execCalls = 1]
                  ELSE NoHist]

\* publish_robot_pose that publishes the map of the frame with every pose
publish_robot_pose_always_map(robot_id, frame_id) ==
    LET last_published_frame_id == last_published_frame_ids[robot_id]
        map_published == frame_id \in config_maps
    IN /\ pub' = [op |-> "publish_robot_pose", robot_id |-> robot_id,
                  frame_id |-> frame_id, last |-> last_published_frame_id,
                  pose_before |-> pose_frame[robot_id],
                  published |-> (IF map_published THEN <<"map">> ELSE <<>>)
                                \o <<"pose">>,
                  scheduled |-> 0, loop_running |-> LoopRunning(curLoop)]
       /\ last_published_frame_ids' =
              IF map_published
              THEN [last_published_frame_ids EXCEPT ![robot_id] = frame_id]
              ELSE last_published_frame_ids
       /\ pose_frame' = [pose_frame EXCEPT ![robot_id] = frame_id]
       /\ since_publish' = 0
       /\ UNCHANGED <<lifeVars, parse, pending_map_fetches, fetchVars,
                      fleetVars, exits>>

\* publish_robot_pose that publishes the pose only once the map of its frame
\* has been published
publish_robot_pose_waiting(robot_id, frame_id) ==
    LET last_published_frame_id == last_published_frame_ids[robot_id]
        map_published == /\ frame_id # last_published_frame_id
                         /\ frame_id \in config_maps
    IN /\ pub' = [op |-> "publish_robot_pose", robot_id |-> robot_id,
                  frame_id |-> frame_id, last |-> last_published_frame_id,
                  pose_before |-> pose_frame[robot_id],
                  published |-> (IF map_published THEN <<"map">> ELSE <<>>)
                                \o (IF frame_id \in config_maps
                                    THEN <<"pose">> ELSE <<>>),
                  scheduled |-> 0, loop_running |-> LoopRunning(curLoop)]
       /\ last_published_frame_ids' =
              IF map_published
              THEN [last_published_frame_ids EXCEPT ![robot_id] = frame_id]
              ELSE last_published_frame_ids
       /\ pose_frame' = [pose_frame EXCEPT ![robot_id] = frame_id]
       /\ since_publish' = 0
       /\ UNCHANGED <<lifeVars, parse, pending_map_fetches, fetchVars,
                      fleetVars, exits>>

\* publish_robot_pose(robot_id, x, y, yaw, frame_id): when frame_id differs
\* from the recorded frame id of the robot it calls publish_robot_map, which
\* publishes and records the frame id only if config.maps has it; then it
\* calls session.publish_pose
publish_robot_pose(robot_id, frame_id) ==
    LET last_published_frame_id == last_published_frame_ids[robot_id]
        map_published == /\ frame_id # last_published_frame_id
                         /\ frame_id \in config_maps
    IN /\ pub' = [op |-> "publish_robot_pose", robot_id |-> robot_id,
                  frame_id |-> frame_id, last |-> last_published_frame_id,
                  pose_before |-> pose_frame[robot_id],
                  published |-> (IF map_published THEN <<"map">> ELSE <<>>)
                                \o <<"pose">>,
                  scheduled |-> 0, loop_running |-> LoopRunning(curLoop)]
       /\ last_published_frame_ids' =
              IF map_published
              THEN [last_published_frame_ids EXCEPT ![robot_id] = frame_id]
              ELSE last_published_frame_ids
       /\ pose_frame' = [pose_frame EXCEPT ![robot_id] = frame_id]
       /\ since_publish' = 0
       /\ UNCHANGED <<lifeVars, parse, pending_map_fetches, fetchVars,
                      fleetVars, exits>>

\* publish_robot_map that records the frame id whether or not a map was
\* published for it
publish_robot_map_always_records(robot_id, frame_id) ==
    /\ pub' = [op |-> "publish_robot_map", robot_id |-> robot_id,
               frame_id |-> frame_id,
               last |-> last_published_frame_ids[robot_id],
               pose_before |-> pose_frame[robot_id],
               published |-> IF frame_id \in config_maps
                             THEN <<"map">> ELSE <<>>,
               scheduled |-> 0, loop_running |-> LoopRunning(curLoop)]
    /\ last_published_frame_ids' =
           [last_published_frame_ids EXCEPT ![robot_id] = frame_id]
    /\ UNCHANGED <<lifeVars, parse, pending_map_fetches, pose_frame,
                   fetchVars, fleetVars, watchVars>>

\* publish_robot_map(robot_id, frame_id): session.publish_map and the record
\* of the frame id when config.maps has frame_id; otherwise only an error is
\* logged: nothing is submitted to self.__loop
publish_robot_map(robot_id, frame_id) ==
    /\ pub' = [op |-> "publish_robot_map", robot_id |-> robot_id,
               frame_id |-> frame_id,
               last |-> last_published_frame_ids[robot_id],
               pose_before |-> pose_frame[robot_id],
               published |-> IF frame_id \in config_maps
                             THEN <<"map">> ELSE <<>>,
               scheduled |-> 0, loop_running |-> LoopRunning(curLoop)]
    /\ last_published_frame_ids' =
           IF frame_id \in config_maps
           THEN [last_published_frame_ids EXCEPT ![robot_id] = frame_id]
           ELSE last_published_frame_ids
    /\ UNCHANGED <<lifeVars, parse, pending_map_fetches, pose_frame,
                   fetchVars, fleetVars, watchVars>>

\* the publish methods are called before start() or while the loop runs
InitPublish ==
    /\ LifeInit \/ Started
    /\ parse = NoParse
    /\ PublishInit
    /\ FetchInit
    /\ FleetInit
    /\ ManagedInit
    /\ WatchInit

NextPublish ==
    \/ \E robot_id \in Robots, frame_id \in Frames :
           publish_robot_pose(robot_id, frame_id)
    \/ \E robot_id \in Robots, frame_id \in Frames :
           publish_robot_map(robot_id, frame_id)

SpecPublish == InitPublish /\ [][NextPublish]_vars

\* ---------------------------------------------------------------- map fetch
\* the request of a map fetch that submits a task whatever the pending set
\* holds
schedule_map_fetch_no_dedup(robot_id, frame_id) ==
    LET k == <<robot_id, frame_id>>
        running == LoopRunning(curLoop)
    IN /\ fetch_tasks[k] < MaxTasks
       /\ fetch' = [NoFetch EXCEPT
                        !.op = "schedule", !.robot_id = robot_id,
                        !.frame_id = frame_id, !.loop_running = running,
                        !.was_pending = (k \in pending_map_fetches),
                        !.in_flight = fetch_tasks[k],
                        !.scheduled = IF running THEN 1 ELSE 0,
                        !.maps_before = config_maps]
       /\ pending_map_fetches' = IF running
                                 THEN pending_map_fetches \cup {k}
                                 ELSE pending_map_fetches
       /\ fetch_tasks' = IF running
                         THEN [fetch_tasks EXCEPT ![k] = @ + 1]
                         ELSE fetch_tasks
       /\ UNCHANGED <<lifeVars, parse, last_published_frame_ids, pose_frame,
                      pub, fetched_maps, temp_map_dir, fleetVars, watchVars>>

\* the request of a map fetch without the test of the loop: the pair is added
\* and the submission to a loop that is None raises AttributeError
schedule_map_fetch_unguarded(robot_id, frame_id) ==
    LET k == <<robot_id, frame_id>>
        running == LoopRunning(curLoop)
        submit == k \notin pending_map_fetches
    IN /\ fetch_tasks[k] < MaxTasks
       /\ fetch' = [NoFetch EXCEPT
                        !.op = "schedule", !.robot_id = robot_id,
                        !.frame_id = frame_id, !.loop_running = running,
                        !.was_pending = (k \in pending_map_fetches),
                        !.in_flight = fetch_tasks[k],
                        !.scheduled = IF submit /\ running THEN 1 ELSE 0,
                        !.maps_before = config_maps,
                        !.raised = (submit /\ ~running)]
       /\ pending_map_fetches' = IF submit
                                 THEN pending_map_fetches \cup {k}
                                 ELSE pending_map_fetches
       /\ fetch_tasks' = IF submit /\ running
                         THEN [fetch_tasks EXCEPT ![k] = @ + 1]
                         ELSE fetch_tasks
       /\ UNCHANGED <<lifeVars, parse, last_published_frame_ids, pose_frame,
                      pub, fetched_maps, temp_map_dir, fleetVars, watchVars>>

\* _schedule_map_fetch(robot_id, frame_id, is_update): without a running loop
\* the request is dropped; a pair that is pending is left alone; otherwise the
\* pair is added to the pending set and one fetch-and-publish task is
\* submitted to the loop
schedule_map_fetch(robot_id, frame_id) ==
    LET k == <<robot_id, frame_id>>
        running == LoopRunning(curLoop)
        submit == running /\ k \notin pending_map_fetches
    IN /\ fetch_tasks[k] < MaxTasks
       /\ fetch' = [NoFetch EXCEPT
                        !.op = "schedule", !.robot_id = robot_id,
                        !.frame_id = frame_id, !.loop_running = running,
                        !.was_pending = (k \in pending_map_fetches),
                        !.in_flight = fetch_tasks[k],
                        !.scheduled = IF submit THEN 1 ELSE 0,
                        !.maps_before = config_maps]
       /\ pending_map_fetches' = IF submit
                                 THEN pending_map_fetches \cup {k}
                                 ELSE pending_map_fetches
       /\ fetch_tasks' = IF submit
                         THEN [fetch_tasks EXCEPT ![k] = @ + 1]
                         ELSE fetch_tasks
       /\ UNCHANGED <<lifeVars, parse, last_published_frame_ids, pose_frame,
                      pub, fetched_maps, temp_map_dir, fleetVars, watchVars>>

\* the fetch task that takes the pair out of the pending set only when
\* fetch_robot_map did not raise
fetch_and_publish_map_no_finally(robot_id, frame_id, result) ==
    LET k == <<robot_id, frame_id>>
        present == result = "map"
        discard == result # "raise"
    IN /\ LoopRunning(curLoop)
       /\ fetch_tasks[k] > 0
       /\ fetch' = [NoFetch EXCEPT
                        !.op = "task_end", !.robot_id = robot_id,
                        !.frame_id = frame_id, !.loop_running = TRUE,
                        !.was_pending = (k \in pending_map_fetches),
                        !.in_flight = fetch_tasks[k], !.result = result,
                        !.maps_before = config_maps,
                        !.published = IF present THEN <<"map">> ELSE <<>>,
                        !.removed = IF discard /\ k \in pending_map_fetches
                                    THEN 1 ELSE 0]
       /\ temp_map_dir' = (temp_map_dir \/ present)
       /\ fetched_maps' = IF present THEN fetched_maps \cup {frame_id}
                          ELSE fetched_maps
       /\ last_published_frame_ids' =
              IF present
              THEN [last_published_frame_ids EXCEPT ![robot_id] = frame_id]
              ELSE last_published_frame_ids
       /\ pending_map_fetches' = IF discard THEN pending_map_fetches \ {k}
                                 ELSE pending_map_fetches
       /\ fetch_tasks' = [fetch_tasks EXCEPT ![k] = @ - 1]
       /\ UNCHANGED <<lifeVars, parse, pose_frame, pub, fleetVars, watchVars>>

\* the fetch task that adds the fetched map to the configuration and does not
\* publish it
fetch_and_publish_map_no_publish(robot_id, frame_id, result) ==
    LET k == <<robot_id, frame_id>>
        present == result = "map"
    IN /\ LoopRunning(curLoop)
       /\ fetch_tasks[k] > 0
       /\ fetch' = [NoFetch EXCEPT
                        !.op = "task_end", !.robot_id = robot_id,
                        !.frame_id = frame_id, !.loop_running = TRUE,
                        !.was_pending = (k \in pending_map_fetches),
                        !.in_flight = fetch_tasks[k], !.result = result,
                        !.maps_before = config_maps,
                        !.removed = IF k \in pending_map_fetches
                                    THEN 1 ELSE 0]
       /\ temp_map_dir' = (temp_map_dir \/ present)
       /\ fetched_maps' = IF present THEN fetched_maps \cup {frame_id}
                          ELSE fetched_maps
       /\ pending_map_fetches' = pending_map_fetches \ {k}
       /\ fetch_tasks' = [fetch_tasks EXCEPT ![k] = @ - 1]
       /\ UNCHANGED <<lifeVars, parse, last_published_frame_ids, pose_frame,
                      pub, fleetVars, watchVars>>

\* _fetch_and_publish_map(robot_id, frame_id, is_update), from the call of
\* fetch_robot_map to the end of the task: a map that is returned is written
\* to the temporary directory, created on first use, added to config.maps
\* under frame_id and published, which records the frame id of the robot;
\* None adds and publishes nothing; in the final step, which runs in every
\* case, the pair leaves the pending set
fetch_and_publish_map(robot_id, frame_id, result) ==
    LET k == <<robot_id, frame_id>>
        present == result = "map"
    IN /\ LoopRunning(curLoop)
       /\ fetch_tasks[k] > 0
       /\ fetch' = [NoFetch EXCEPT
                        !.op = "task_end", !.robot_id = robot_id,
                        !.frame_id = frame_id, !.loop_running = TRUE,
                        !.was_pending = (k \in pending_map_fetches),
                        !.in_flight = fetch_tasks[k], !.result = result,
                        !.maps_before = config_maps,
                        !.published = IF present THEN <<"map">> ELSE <<>>,
                        !.removed = IF k \in pending_map_fetches
                                    THEN 1 ELSE 0]
       /\ temp_map_dir' = (temp_map_dir \/ present)
       /\ fetched_maps' = IF present THEN fetched_maps \cup {frame_id}
                          ELSE fetched_maps
       /\ last_published_frame_ids' =
              IF present
              THEN [last_published_frame_ids EXCEPT ![robot_id] = frame_id]
              ELSE last_published_frame_ids
       /\ pending_map_fetches' = pending_map_fetches \ {k}
       /\ fetch_tasks' = [fetch_tasks EXCEPT ![k] = @ - 1]
       /\ UNCHANGED <<lifeVars, parse, pose_frame, pub, fleetVars, watchVars>>

\* map fetches are requested before start() or while the loop runs
InitFetch ==
    /\ LifeInit \/ Started
    /\ parse = NoParse
    /\ PublishInit
    /\ FetchInit
    /\ FleetInit
    /\ ManagedInit
    /\ WatchInit

NextFetch ==
    \/ \E robot_id \in Robots, frame_id \in FetchFrames :
           schedule_map_fetch(robot_id, frame_id)
    \/ \E robot_id \in Robots, frame_id \in FetchFrames,
          result \in FetchResults :
           fetch_and_publish_map(robot_id, frame_id, result)

SpecFetch == InitFetch /\ [][NextFetch]_vars

\* ------------------------------------------------- the temporary directory
\* _get_temp_map_dir(): creates the temporary directory when
\* self.__temp_map_dir is None and returns its path
get_temp_map_dir ==
    /\ temp_map_dir' = TRUE
    /\ UNCHANGED <<lifeVars, parse, last_published_frame_ids,
                   pending_map_fetches, pose_frame, pub, fetch_tasks,
                   fetched_maps, fetch, fleetVars, watchVars>>

\* the lifecycle of the connector, with the temporary directory asked for at
\* any moment
NextScratch ==
    \/ start
    \/ stop_set
    \/ stop_join
    \/ stop_check
    \/ Tick
    \/ \E w \in Workers : Worker(w)
    \/ get_temp_map_dir

SpecScratch == Init /\ [][NextScratch]_vars

\* ---------------------------------------- publishes and the passage of time
\* the timeout of the health check, in seconds: twice the heartbeat interval
HealthTimeout == 2

\* publish_robot_odometry(robot_id, **kwargs): session.publish_odometry
publish_robot_odometry(robot_id) ==
    /\ pub' = [NoPub EXCEPT !.op = "publish_robot_odometry",
                            !.robot_id = robot_id,
                            !.last = last_published_frame_ids[robot_id],
                            !.pose_before = pose_frame[robot_id],
                            !.published = <<"odometry">>,
                            !.loop_running = LoopRunning(curLoop)]
    /\ since_publish' = 0
    /\ UNCHANGED <<lifeVars, parse, last_published_frame_ids,
                   pending_map_fetches, pose_frame, fetchVars, fleetVars,
                   exits>>

\* publish_robot_key_values(robot_id, **kwargs): session.publish_key_values
publish_robot_key_values(robot_id) ==
    /\ pub' = [NoPub EXCEPT !.op = "publish_robot_key_values",
                            !.robot_id = robot_id,
                            !.last = last_published_frame_ids[robot_id],
                            !.pose_before = pose_frame[robot_id],
                            !.published = <<"key_values">>,
                            !.loop_running = LoopRunning(curLoop)]
    /\ since_publish' = 0
    /\ UNCHANGED <<lifeVars, parse, last_published_frame_ids,
                   pending_map_fetches, pose_frame, fetchVars, fleetVars,
                   exits>>

\* publish_robot_system_stats(robot_id, **kwargs):
\* session.publish_system_stats
publish_robot_system_stats(robot_id) ==
    /\ pub' = [NoPub EXCEPT !.op = "publish_robot_system_stats",
                            !.robot_id = robot_id,
                            !.last = last_published_frame_ids[robot_id],
                            !.pose_before = pose_frame[robot_id],
                            !.published = <<"system_stats">>,
                            !.loop_running = LoopRunning(curLoop)]
    /\ since_publish' = 0
    /\ UNCHANGED <<lifeVars, parse, last_published_frame_ids,
                   pending_map_fetches, pose_frame, fetchVars, fleetVars,
                   exits>>

\* one second passes in which no publish method is called; nothing in the
\* connector reads the clock or ends the process
Elapse ==
    /\ since_publish < MaxElapsed
    /\ since_publish' = since_publish + 1
    /\ UNCHANGED <<lifeVars, parse, last_published_frame_ids,
                   pending_map_fetches, pose_frame, pub, fetchVars,
                   fleetVars, exits>>

\* the publish methods are called, at any pace, before start() or while the
\* loop runs
InitWatchdog ==
    /\ LifeInit \/ Started
    /\ parse = NoParse
    /\ PublishInit
    /\ FetchInit
    /\ FleetInit
    /\ ManagedInit
    /\ WatchInit

NextWatchdog ==
    \/ \E robot_id \in Robots, frame_id \in Frames :
           publish_robot_pose(robot_id, frame_id)
    \/ \E robot_id \in Robots : publish_robot_odometry(robot_id)
    \/ \E robot_id \in Robots : publish_robot_key_values(robot_id)
    \/ \E robot_id \in Robots : publish_robot_system_stats(robot_id)
    \/ Elapse

SpecWatchdog == InitWatchdog /\ [][NextWatchdog]_vars

\* ------------------------------------------------------------ update_fleet
\* the robot ids of the fleets given to update_fleet
FleetRobotIds == Robots \cup {"r3"}

\* the lists given to update_fleet: every list of up to MaxFleet robots, the
\* empty one and the ones that repeat a robot id included
FleetInputs ==
    SeqsUpTo({RobotConfig(robot_id) : robot_id \in FleetRobotIds}, MaxFleet)

\* the connector inside the user callback _connect() of worker 1
Connecting ==
    /\ interval \in Intervals
    /\ thread = 1
    /\ workers = [w \in Workers |->
                     IF w = 1 THEN [NoWorker EXCEPT !.pc = "connect"]
                     ELSE NoWorker]
    /\ stopEvent = FALSE
    /\ curLoop = 1
    /\ loopClosed = FALSE
    /\ sessions = {}
    /\ owner = [NoOwner EXCEPT !.lastStart = "spawned"]
    /\ cmd = [t \in Transport |-> NoCmd]
    /\ hist = [w \in Workers |->
                  IF w = 1 THEN [NoHist EXCEPT !.connectCalls = 1]
                  ELSE NoHist]

\* update_fleet that leaves the cached robot ids as they are
update_fleet_stale_ids(fleet) ==
    /\ config_fleet' = fleet
    /\ UNCHANGED <<lifeVars, parse, last_published_frame_ids,
                   pending_map_fetches, pose_frame, pub, fetchVars,
                   robot_ids, managed, watchVars>>

\* update_fleet(fleet): self.config.fleet = fleet, an assignment the model
\* validators of ConnectorConfig do not run on, and the refresh of the cached
\* robot ids
update_fleet(fleet) ==
    /\ config_fleet' = fleet
    /\ robot_ids' = RobotIdsOf(fleet)
    /\ UNCHANGED <<lifeVars, parse, last_published_frame_ids,
                   pending_map_fetches, pose_frame, pub, fetchVars,
                   managed, watchVars>>

\* update_fleet is called before start(), from _connect() or while the loop
\* runs
InitFleet ==
    /\ LifeInit \/ Connecting \/ Started
    /\ parse = NoParse
    /\ PublishInit
    /\ FetchInit
    /\ FleetInit
    /\ ManagedInit
    /\ WatchInit

NextFleet == \E fleet \in FleetInputs : update_fleet(fleet)

SpecFleet == InitFleet /\ [][NextFleet]_vars


\* ------------------------------------------------------- Fleet (fleet.py)
\* Fleet.start(): the thread is created and started; __run_fleet creates the
\* loop and the stop event, attaches the loop to every connector and enters
\* run_until_complete(self.__connect()), which starts the connect coroutines
\* of all connectors in one asyncio.gather
fleet_start ==
    /\ managed.pc = "constructed"
    /\ managed' = [managed EXCEPT !.pc = "gather"]
    /\ UNCHANGED <<lifeVars, parse, last_published_frame_ids,
                   pending_map_fetches, pose_frame, pub, fetchVars,
                   config_fleet, robot_ids, watchVars>>

\* the connect coroutine of the connector of robot_id ends: it returns once
\* the robot's session is connected, or raises when the session cannot
\* connect
managed_connect(robot_id, out) ==
    /\ managed.pc = "gather"
    /\ managed.connected[robot_id] = "none"
    /\ managed' = [managed EXCEPT !.connected[robot_id] = out]
    /\ UNCHANGED <<lifeVars, parse, last_published_frame_ids,
                   pending_map_fetches, pose_frame, pub, fetchVars,
                   config_fleet, robot_ids, watchVars>>

\* await asyncio.gather(*(...), return_exceptions=True) returns once every
\* connect coroutine has ended: the exceptions are items of the list it
\* returns, which __connect does not look at; await self._connect() begins
fleet_connect_gathered ==
    /\ managed.pc = "gather"
    /\ \A r \in managed.robot_ids : managed.connected[r] # "none"
    /\ managed' = [managed EXCEPT !.pc = "user_connect"]
    /\ UNCHANGED <<lifeVars, parse, last_published_frame_ids,
                   pending_map_fetches, pose_frame, pub, fetchVars,
                   config_fleet, robot_ids, watchVars>>

\* the user callback _connect() of the fleet ends: when it returns, __connect
\* returns and __run_fleet goes on to the cameras and to
\* run_until_complete(self.__run_loop()); when it raises, __connect raises
\* out of run_until_complete, which is outside the try, and the thread ends
fleet_user_connect(out) ==
    /\ managed.pc = "user_connect"
    /\ managed' = [managed EXCEPT
                       !.user_connect = out,
                       !.raised = (out = "exc"),
                       !.pc = IF out = "ok" THEN "run_loop" ELSE "crashed"]
    /\ UNCHANGED <<lifeVars, parse, last_published_frame_ids,
                   pending_map_fetches, pose_frame, pub, fetchVars,
                   config_fleet, robot_ids, watchVars>>

\* a Fleet constructed for any set of robot ids, before start()
InitManaged ==
    /\ LifeInit
    /\ parse = NoParse
    /\ PublishInit
    /\ FetchInit
    /\ FleetInit
    /\ managed \in {NewFleet(ids) : ids \in SUBSET FleetRobotIds}
    /\ WatchInit

NextManaged ==
    \/ fleet_start
    \/ \E robot_id \in managed.robot_ids, out \in {"ok", "exc"} :
           managed_connect(robot_id, out)
    \/ fleet_connect_gathered
    \/ \E out \in {"ok", "exc"} : fleet_user_connect(out)

SpecManaged == InitManaged /\ [][NextManaged]_vars

\* ------------------------------------------------------------- progress
\* what the threads of the lifecycle are bound to do: a worker thread that
\* can take a step takes it and every user callback ends (returns or raises),
\* time passes, and a stop() in progress goes on.  Nothing obliges the caller
\* to call start() or stop().
LifeFairness ==
    /\ \A w \in Workers : WF_vars(Worker(w))
    /\ WF_vars(Tick)
    /\ WF_vars(stop_join)
    /\ WF_vars(stop_check)

\* the same with the command bridge: a handler the running loop can start or
\* resume is run to its end and .result() returns once the future is done.
\* Nothing obliges the transport to deliver a command.
Fairness ==
    /\ LifeFairness
    /\ \A t \in Transport :
           /\ WF_vars(handler_start(t))
           /\ WF_vars(\E res \in HandlerOutcomes : handler_end(t, res))
           /\ WF_vars(handler_wrapper_return(t))

\* the lifecycle without commands
NextLife ==
    \/ start
    \/ stop_set
    \/ stop_join
    \/ stop_check
    \/ Tick
    \/ \E w \in Workers : Worker(w)

SpecLifeFair == Init /\ [][NextLife]_vars /\ LifeFairness

SpecFair == Init /\ [][Next]_vars /\ Fairness

\* ================================================================ claims
\* the paced loop of worker w: the positions inside __run_loop
InPacedLoop(w) == workers[w].pc \in {"loop_check", "exec", "cooldown"}

\* C1: a start() call made while the worker thread is alive changes nothing:
\* no thread is created, self.__thread stays the same thread, the stop flag
\* is untouched and no callback (connect included) is invoked.
C1_StartWhileRunningIsNoop ==
    [][(start /\ is_alive(thread)) =>
         /\ thread' = thread
         /\ workers' = workers
         /\ hist' = hist
         /\ stopEvent' = stopEvent]_vars

C1_Witness ==
    /\ owner.lastStart = "noop"
    /\ is_alive(thread)
    /\ hist[thread].connectCalls = 1

\* C2: a stop() call made while no worker thread is alive (never started, or
\* already exited) returns normally.
C2_StopWhileStoppedReturns ==
    (owner.pc = "idle" /\ owner.stoppedAtCall) => owner.stopResult = "returned"

\* C3: in every worker run the phases come in the order connect, session
\* creation, execution-loop invocations, disconnect: an execution-loop
\* invocation starts only after connect and session creation are complete
\* and before any teardown, teardown never starts while a callback is in
\* flight, and the thread ends normally only with disconnect done.
C3_PhaseOrder ==
    /\ [](\A w \in Workers :
            /\ hist[w].connectDone => hist[w].connectCalls = 1
            /\ hist[w].sessionsDone => hist[w].connectDone
            /\ hist[w].execCalls > 0 => hist[w].sessionsDone
            /\ InPacedLoop(w) => ~hist[w].teardown /\ hist[w].disconnectCalls = 0
            /\ hist[w].disconnectCalls > 0 => hist[w].teardown /\ hist[w].sessionsDone
            /\ (w = thread /\ workers[w].pc = "exited") => hist[w].disconnectDone
            /\ (w = thread /\ workers[w].pc = "crashed" /\ hist[w].sessionsDone)
                 => hist[w].teardown)
    /\ [][\A w \in Workers :
            /\ hist'[w].execCalls > hist[w].execCalls =>
                 /\ hist[w].connectDone /\ hist[w].sessionsDone
                 /\ ~hist[w].teardown /\ hist[w].disconnectCalls = 0
            /\ (hist'[w].teardown /\ ~hist[w].teardown) => workers[w].cb # "running"]_vars

C3_Witness ==
    /\ thread # 0
    /\ workers[thread].pc = "exited"
    /\ hist[thread].execCalls >= 1
    /\ hist[thread].disconnectDone

\* C4: when the user connect callback or the creation of a session raises,
\* the worker thread ends at once: no execution-loop invocation, no session
\* teardown, no disconnect callback, and the thread is not alive.
C4_FailedStartupNeverRuns ==
    \A w \in Workers :
        hist[w].cause \in {"connect", "sessions"} =>
            /\ workers[w].pc = "crashed"
            /\ ~is_alive(w)
            /\ hist[w].execCalls = 0
            /\ ~hist[w].teardown
            /\ hist[w].disconnectCalls = 0

C4_Witness ==
    \E w \in Workers : hist[w].cause = "sessions" /\ sessions # {} /\ ~is_alive(w)

\* C5: no exception of a user callback leaves the target function of the
\* worker thread.
C5_NoCallbackErrorLeavesWorker ==
    \A w \in Workers : hist[w].cause \notin {"connect", "disconnect"}

\* C6: an Exception raised by the execution-loop callback does not end the
\* paced loop: the failed iteration goes to the cooldown, the cooldown goes
\* back to the loop test, the loop test starts the next invocation whenever
\* the stop flag is clear, and the loop is left only on the stop flag (or on
\* a BaseException, which is not an Exception).
C6_LoopSurvivesCallbackError ==
    [][\A w \in Workers :
         /\ hist'[w].execFailed > hist[w].execFailed =>
              workers[w].pc = "exec" /\ workers'[w].pc = "cooldown"
         /\ (workers[w].pc = "cooldown" /\ workers'[w].pc # "cooldown") =>
              workers'[w].pc = "loop_check"
         /\ (workers[w].pc = "loop_check" /\ workers'[w].pc # "loop_check" /\ ~stopEvent) =>
              workers'[w].pc = "exec" /\ hist'[w].execCalls = hist[w].execCalls + 1
         /\ (InPacedLoop(w) /\ workers'[w].pc \notin {"loop_check", "exec", "cooldown"}) =>
              \/ workers[w].pc = "loop_check" /\ stopEvent
              \/ workers[w].pc = "exec" /\ workers'[w].pend]_vars

C6_Witness ==
    \E w \in Workers :
        /\ workers[w].pc = "exec"
        /\ hist[w].execFailed >= 1
        /\ hist[w].execCalls >= 2
        /\ ~stopEvent

\* C7: an iteration of the paced loop after the first begins only when the
\* callback of the previous iteration has ended and the pacing sleep started
\* with the previous iteration has elapsed.
C7_NextIterationAfterInterval ==
    [][\A w \in Workers :
         (hist'[w].execCalls > hist[w].execCalls /\ hist[w].execCalls >= 1) =>
             workers[w].cb # "running" /\ workers[w].pace = 0]_vars

\* C8: stop() only sets the flag: the step that sets it changes no worker,
\* a callback in flight leaves that state only by ending itself, an
\* invocation starts only at the loop test with the flag clear and never
\* once teardown has begun, and a loop is closed only after session
\* teardown and the user disconnect callback ran on its worker thread.
C8_CooperativeStop ==
    /\ [][(stopEvent' /\ ~stopEvent) => (workers' = workers /\ hist' = hist)]_vars
    /\ [][\A w \in Workers :
            /\ (workers[w].cb = "running" /\ workers'[w].cb # "running") =>
                 \/ workers'[w].cb = "done" /\ workers'[w].pc = "exec"
                 \/ hist'[w].execFailed = hist[w].execFailed + 1
                 \/ workers'[w].pend
            /\ hist'[w].execCalls > hist[w].execCalls =>
                 workers[w].pc = "loop_check" /\ ~stopEvent /\ ~hist[w].teardown
            /\ (loopClosed' /\ ~loopClosed /\ curLoop = w) =>
                 /\ hist[w].teardown
                 /\ hist[w].disconnectDone
                 /\ hist[w].disconnectOn = {w}]_vars

C8_Witness ==
    /\ owner.pc = "join"
    /\ stopEvent
    /\ thread # 0
    /\ workers[thread].pc = "exec"
    /\ workers[thread].cb = "running"

\* C9: stop() raises exactly when the worker thread is alive at the test
\* that follows the bounded join, and returns normally otherwise; join
\* returns before its timeout only when the thread has ended, never waits
\* beyond the timeout, and after a normal return the thread is not alive.
C9_BoundedStop ==
    /\ [][(owner.pc = "check" /\ owner'.pc = "idle") =>
            owner'.stopResult = IF is_alive(thread) THEN "raised" ELSE "returned"]_vars
    /\ [](/\ owner.joinLeft <= StopTimeout
          /\ (owner.pc = "check" /\ owner.joinLeft > 0) => ~is_alive(thread)
          /\ (owner.pc = "join" /\ owner.joinLeft = 0) => ENABLED stop_join
          /\ (owner.pc = "idle" /\ owner.stopResult = "returned") => ~is_alive(thread))

C9_Witness ==
    /\ owner.pc = "idle"
    /\ owner.stopResult = "raised"
    /\ is_alive(thread)

\* C10 as stated: whenever the entry point has returned, the handler was
\* executed exactly once, on the thread of the loop, and had ended.
C10_HandlerRunsOnceBeforeReturn ==
    \A t \in Transport :
        cmd[t].pc = "returned" =>
            /\ cmd[t].runs = 1
            /\ cmd[t].ranOn = cmd[t].loop
            /\ cmd[t].task = "done"

\* C10 amended: the handler is executed at most once and only on the worker
\* thread that runs the loop it was submitted to; when the entry point has
\* returned, either the handler was executed once and had ended, or the
\* submission itself failed because self.__loop was None or closed, and then
\* the handler never runs and the bridge reported one FAILURE.
C10_HandlerRunsOnceUnlessLoopClosed ==
    /\ [][\A t \in Transport :
            (cmd'[t].submitFailed /\ cmd'[t] # cmd[t]) => (curLoop = 0 \/ loopClosed)]_vars
    /\ [](\A t \in Transport :
        /\ cmd[t].runs <= 1
        /\ cmd[t].runs = 1 => cmd[t].ranOn = cmd[t].loop /\ cmd[t].loop \in Workers
        /\ cmd[t].submitFailed =>
             cmd[t].runs = 0 /\ cmd[t].task = "none" /\ cmd[t].results = 1
        /\ (cmd[t].pc = "returned" /\ ~cmd[t].submitFailed) =>
             /\ cmd[t].runs = 1
             /\ cmd[t].task = "done"
             /\ cmd[t].out \in {"ok", "failure", "exc"})

C10_Witness ==
    \E t \in Transport :
        /\ cmd[t].pc = "returned"
        /\ cmd[t].runs = 1
        /\ cmd[t].ranOn = thread
        /\ cmd[t].out = "failure"

\* the invocation of transport thread t has returned after its handler ran
Returned(t) == cmd[t].pc = "returned" /\ cmd[t].task = "done"

\* C11: when the handler raises CommandFailure(S, D) and has not called the
\* result continuation itself, the continuation is called exactly once, with
\* FAILURE, execution_status_details = S and stderr = D
C11_CommandFailureReportedVerbatim ==
    \A t \in Transport :
        (Returned(t) /\ IsCommandFailure(cmd[t].exc) /\ cmd[t].own = 0)
        => /\ cmd[t].own + cmd[t].results = 1
           /\ cmd[t].report =
                  [code |-> "FAILURE",
                   execution_status_details |->
                       cmd[t].exc.execution_status_details,
                   stderr |-> cmd[t].exc.stderr]

C11_Witness ==
    \E t \in Transport :
        /\ Returned(t) /\ cmd[t].own = 0
        /\ cmd[t].exc = CommandFailure("Command execution failed",
                                       "Error details here")
        /\ cmd[t].report.execution_status_details = "Command execution failed"
        /\ cmd[t].report.stderr = "Error details here"

\* C12: when the handler raises an exception that is not a CommandFailure,
\* the bridge calls the continuation exactly once, with FAILURE, the generic
\* summary and as detail the exception's message, or the name of its class
\* when the message is empty
C12_OtherExceptionReportedGeneric ==
    \A t \in Transport :
        (Returned(t) /\ cmd[t].out = "exc")
        => /\ cmd[t].results = 1
           /\ cmd[t].report.code = "FAILURE"
           /\ cmd[t].report.execution_status_details =
                  "An error occurred executing custom command"
           /\ cmd[t].exc.str # "" => cmd[t].report.stderr = cmd[t].exc.str
           /\ cmd[t].exc.str = "" => cmd[t].report.stderr = cmd[t].exc.name

C12_Witness ==
    \E t \in Transport :
        /\ Returned(t)
        /\ cmd[t].exc = OtherException("CustomException", "")
        /\ cmd[t].report.stderr = "CustomException"

C14_NoReportOnNormalCompletion ==
    /\ [](\A t \in Transport :
            (Returned(t) /\ cmd[t].out = "ok")
            => (cmd[t].results = 0 /\ cmd[t].report = NoReport))
    /\ [][\A t \in Transport :
            (cmd[t].pc = "blocked" /\ cmd[t].out = "ok"
             /\ cmd'[t].pc = "returned")
            => UNCHANGED <<thread, workers, stopEvent, curLoop, loopClosed,
                           sessions, interval, owner, hist>>]_vars

C14_Witness ==
    \E t \in Transport :
        /\ Returned(t) /\ cmd[t].out = "ok" /\ cmd[t].own = 1
        /\ cmd[t].results = 0

\* C15: a CommandFailure raised inside a handler by the commands module
\* (CommandModel on a validation error, parse_custom_command_args on an
\* odd-length list) is reported as a structured failure: the continuation
\* gets FAILURE with the summary and the detail of that failure, not the
\* generic summary
C15_CommandsModuleFailureIsStructured ==
    \A t \in Transport :
        (/\ Returned(t)
         /\ cmd[t].exc.module = "inorbit_connector.commands"
         /\ cmd[t].exc.name = "CommandFailure")
        => /\ cmd[t].results = 1
           /\ cmd[t].report.code = "FAILURE"
           /\ cmd[t].report.execution_status_details =
                  cmd[t].exc.execution_status_details
           /\ cmd[t].report.stderr = cmd[t].exc.stderr

C17_BadInputClassifiedExactly ==
    LET a == parse.input
        r == parse.commands
        malformed == \/ a.type # "list"
                     \/ Len(a.items) # 2
                     \/ a.items[1].type # "str"
                     \/ a.items[2].type \in {"str", "bytes"}
                     \/ ~Iterable(a.items[2])
    IN r.kind # "none"
       => /\ malformed
             => (r.kind = "raise" /\ r.exc.name = "ValueError")
          /\ (~malformed /\ Len(a.items[2].items) % 2 # 0)
             => /\ r.kind = "raise"
                /\ r.exc.name = "CommandFailure"
                /\ r.exc.execution_status_details =
                       "Invalid script arguments provided"
          /\ (~malformed /\ Len(a.items[2].items) % 2 = 0)
             => r.kind = "return"

\* the number of calls of the session method m a publish call made
Published(m) ==
    Cardinality({i \in DOMAIN pub.published : pub.published[i] = m})

\* C18 (as stated): a pose publish whose frame id differs from the frame id
\* recorded for the robot makes exactly one map publish, before the pose
\* publish; a pose publish with the same frame id makes none
C18_NewFrameOneMapPublish ==
    pub.op = "publish_robot_pose"
    => /\ pub.frame_id # pub.last => pub.published = <<"map", "pose">>
       /\ pub.frame_id = pub.last => Published("map") = 0

\* C18 (amended): for each robot independently, a pose publish whose frame id
\* has a map in the configuration and differs from the frame id of the last
\* map published for that robot makes exactly one map publish, before the
\* pose publish; a pose publish with the same frame id, or with a frame id
\* that has no configured map, makes none; the record of the other robots is
\* not touched
C18_NewConfiguredFrameOneMapPublish ==
    /\ [](pub.op = "publish_robot_pose"
          => /\ (pub.frame_id # pub.last /\ pub.frame_id \in config_maps)
                => pub.published = <<"map", "pose">>
             /\ (pub.frame_id = pub.last \/ pub.frame_id \notin config_maps)
                => Published("map") = 0)
    /\ [][\A r \in Robots :
            r # pub'.robot_id
            => last_published_frame_ids'[r] = last_published_frame_ids[r]]_vars

C18_Witness ==
    /\ pub.op = "publish_robot_pose"
    /\ pub.robot_id = "r1"
    /\ pub.last = "frameA"
    /\ pub.frame_id = "frameB"
    /\ pub.published = <<"map", "pose">>
    /\ last_published_frame_ids["r1"] = "frameB"
    /\ last_published_frame_ids["r2"] = "frameA"

\* C19: every call of publish_robot_pose makes exactly one pose publish on the
\* session of the robot before it returns, whether the frame id has a map in
\* the configuration or not
C19_EveryPoseCallPublishesOnce ==
    pub.op = "publish_robot_pose" => Published("pose") = 1

C19_Witness ==
    /\ pub.op = "publish_robot_pose"
    /\ pub.frame_id = "frameC"
    /\ pub.frame_id # pub.last
    /\ pub.published = <<"pose">>

\* C20: a map publish requested for a frame id that has no map in the
\* configuration while the event loop is running submits one fetch-and-publish
\* task to the loop and adds the robot id and frame id to the pending fetches
C20_AbsentMapSchedulesFetch ==
    (/\ pub.op = "publish_robot_map"
     /\ pub.frame_id \notin config_maps
     /\ pub.loop_running)
    => /\ pub.scheduled = 1
       /\ <<pub.robot_id, pub.frame_id>> \in pending_map_fetches

\* the pair of the last fetch request or fetch task
FetchKey == <<fetch.robot_id, fetch.frame_id>>

C22_PendingClearedOnEveryOutcome ==
    /\ fetch.op = "task_end"
       => /\ FetchKey \notin pending_map_fetches
          /\ fetch.removed = 1
          /\ fetch_tasks[FetchKey] = 0
    /\ (fetch.op = "schedule" /\ fetch.loop_running /\ ~fetch.was_pending)
       => /\ fetch.scheduled = 1
          /\ FetchKey \in pending_map_fetches

\* a fetch task whose callback raised has ended
C22_Witness ==
    /\ fetch.op = "task_end"
    /\ fetch.result = "raise"
    /\ fetch.was_pending
    /\ FetchKey \notin pending_map_fetches

\* C23: a request of a map fetch made while no loop is running submits no
\* task, raises nothing and leaves the pending set as it was
C23_NoLoopDropsRequest ==
    /\ (fetch.op = "schedule" /\ ~fetch.loop_running)
       => fetch.scheduled = 0 /\ ~fetch.raised
    /\ ~LoopRunning(curLoop)
       => pending_map_fetches = {}
          /\ \A k \in Robots \X FetchFrames : fetch_tasks[k] = 0

\* a request was made before start()
C23_Witness ==
    /\ fetch.op = "schedule"
    /\ ~fetch.loop_running
    /\ fetch.scheduled = 0
    /\ pending_map_fetches = {}

\* C24: a fetch task whose callback returned a map has added the frame id to
\* the maps of the configuration and published the map; one whose callback
\* returned None has left the maps as they were and published nothing
C24_FetchedMapInsertedAndPublished ==
    fetch.op = "task_end"
    => /\ fetch.result = "map"
          => /\ config_maps = fetch.maps_before \cup {fetch.frame_id}
             /\ fetch.published = <<"map">>
             /\ last_published_frame_ids[fetch.robot_id] = fetch.frame_id
       /\ fetch.result = "none"
          => /\ config_maps = fetch.maps_before
             /\ fetch.published = <<>>

\* a task has added a map for a frame id that had none
C24_Witness ==
    /\ fetch.op = "task_end"
    /\ fetch.result = "map"
    /\ fetch.frame_id \notin fetch.maps_before
    /\ fetch.frame_id \in config_maps

\* C25: the temporary directory is created by its first use and by nothing
\* else, and when __disconnect has run to its end no temporary directory is
\* left: one that was created is deleted and self.__temp_map_dir is None
C25_ScratchDirDeletedOnDisconnect ==
    [][/\ (~temp_map_dir /\ temp_map_dir') => get_temp_map_dir
       /\ \A w \in Workers :
              (workers[w].pc = "user_disc" /\ workers'[w].pc = "close")
              => ~temp_map_dir']_vars
\* C26: once no pose, odometry, key-value or system-stats publish has been
\* made for longer than the timeout of the health check, the process has been
\* terminated, once; it is never terminated more than once
C26_StalePublishTerminatesOnce ==
    /\ since_publish > HealthTimeout => exits = 1
    /\ exits <= 1
\* C28: robot_ids is the list of the robot ids of config.fleet, in the order
\* of the fleet, after __init__ and after every update_fleet()
C28_RobotIdsFollowFleet ==
    /\ Len(robot_ids) = Len(config_fleet)
    /\ \A i \in DOMAIN config_fleet : robot_ids[i] = config_fleet[i].robot_id

\* update_fleet() was called from _connect() with a fleet of other robots in
\* another order
C28_Witness ==
    /\ workers[1].pc = "connect"
    /\ config_fleet = <<RobotConfig("r3"), RobotConfig("r1")>>
    /\ robot_ids = <<"r3", "r1">>

\* C29: config.fleet is not empty and no two of its robots have the same
\* robot id, after __init__ and after every update_fleet()
C29_FleetNonEmptyAndUnique ==
    /\ config_fleet # <<>>
    /\ \A i, j \in DOMAIN config_fleet :
           config_fleet[i].robot_id = config_fleet[j].robot_id => i = j
\* the threads a user callback is executing on: a worker inside _connect(),
\* _execution_loop() or _disconnect(), and the thread that has started a
\* command handler and not finished it (a handler left suspended on a loop
\* that no longer runs is not executing)
CallbackThreads ==
    {w \in Workers : \/ workers[w].pc \in {"connect", "user_disc"}
                      \/ (workers[w].pc = "exec" /\ workers[w].cb = "running")}
    \cup {cmd[t].ranOn :
              t \in {u \in Transport :
                        /\ cmd[u].task = "running"
                        /\ cmd[u].ranOn \in Workers
                               => LoopRunning(cmd[u].ranOn)}}

\* C30: the user callbacks that are executing are all on one thread, and that
\* thread is the worker thread whose event loop self.__loop is: never the
\* thread that calls start() and stop(), never a thread of the transport
C30_CallbacksOnTheWorkerLoop ==
    /\ CallbackThreads \subseteq Workers
    /\ Cardinality(CallbackThreads) <= 1
    /\ \A w \in CallbackThreads : is_alive(w) /\ curLoop = w

\* a command handler is executing while the worker is inside
\* _execution_loop()
C30_Witness ==
    /\ \E t \in Transport : cmd[t].task = "running" /\ cmd[t].ranOn = 1
    /\ workers[1].pc = "exec"
    /\ workers[1].cb = "running"
    /\ CallbackThreads = {1}

\* the worker threads that are alive
LiveWorkers == {w \in Workers : is_alive(w)}

\* C31: under every sequence of start() and stop() calls at most one worker
\* thread is alive, and it is the thread self.__thread refers to
C31_AtMostOneLiveWorker ==
    /\ Cardinality(LiveWorkers) <= 1
    /\ \A w \in LiveWorkers : thread = w

\* start() was called after a stop() that timed out, with the worker alive
C31_Witness ==
    /\ owner.stopResult = "raised"
    /\ owner.lastStart = "noop"
    /\ owner.pc = "idle"
    /\ LiveWorkers = {thread}

\* C32: every invocation of the command entry point that waits for its
\* handler returns to the transport thread in the end
C32_EntryPointEventuallyReturns ==
    \A t \in Transport : (cmd[t].pc = "blocked") ~> (cmd[t].pc = "returned")

\* C34: a worker run whose connect phase succeeded has invoked _disconnect()
\* once when its thread has ended, however the paced loop ended and whether
\* or not the disconnect of a robot session raised; no run invokes it twice
C34_DisconnectOncePerConnectedRun ==
    \A w \in Workers :
        /\ hist[w].disconnectCalls <= 1
        /\ (hist[w].sessionsDone /\ workers[w].pc \in {"exited", "crashed"})
           => hist[w].disconnectCalls = 1

\* C33: once stop() has set the stop flag while the worker is in its paced
\* loop, the worker thread ends in the end, with __disconnect having been run
\* by it, whatever the execution-loop callback does in each iteration
C33_StopEndsRunWithDisconnect ==
    \A w \in Workers :
        (stopEvent /\ thread = w /\ InPacedLoop(w))
        ~> (/\ ~is_alive(w)
            /\ hist[w].teardown
            /\ workers[w].pc = "exited" => hist[w].disconnectDone)

\* stop() has returned after a run in which every iteration of the
\* execution loop raised
C33_Witness ==
    /\ thread # 0
    /\ stopEvent
    /\ owner.pc = "idle"
    /\ owner.stopResult = "returned"
    /\ ~owner.stoppedAtCall
    /\ workers[thread].pc = "exited"
    /\ hist[thread].execCalls = MaxIter
    /\ hist[thread].execFailed = MaxIter
    /\ hist[thread].disconnectDone

\* the worker has not reached the paced loop: its thread was started and is
\* before or inside __connect
Starting(w) == workers[w].pc \in {"start", "connect", "sessions"}

\* C35: a stop flag set while the worker is before or inside the connect
\* phase stays set for the run: no execution-loop iteration is started in
\* it, and the thread ends in the end, after __disconnect when the connect
\* phase completed
C35_StopWhileStartingIsKept ==
    /\ [][\A w \in Workers :
             (stopEvent /\ thread = w /\ is_alive(w) /\ hist[w].execCalls = 0)
             => (stopEvent' /\ hist'[w].execCalls = 0)]_vars
    /\ \A w \in Workers :
           (stopEvent /\ thread = w /\ Starting(w))
           ~> (/\ ~is_alive(w)
               /\ hist[w].execCalls = 0
               /\ hist[w].sessionsDone => hist[w].teardown)

\* the worker has ended after a connect phase that completed, without an
\* iteration, and stop() has returned
C35_Witness ==
    /\ thread # 0
    /\ stopEvent
    /\ owner.stopResult = "returned"
    /\ ~owner.stoppedAtCall
    /\ workers[thread].pc = "exited"
    /\ hist[thread].sessionsDone
    /\ hist[thread].execCalls = 0
    /\ hist[thread].disconnectDone

\* a step of start() that creates and starts a worker thread
Spawned ==
    /\ thread' # 0
    /\ workers'[thread'].pc = "start"
    /\ ~(thread # 0 /\ workers[thread].pc = "start")

\* no stop() was called since the start() that created the current thread
NoStopSinceStart == owner.pc = "idle" /\ owner.stopResult = "none"

\* C36: a start() after a finished run clears the stop flag and starts a
\* fresh worker; until stop() is called again the flag stays clear, so the
\* while test of the paced loop ends a run only on a stop() of that run; the
\* new worker invokes connect and, once in the paced loop, runs an iteration
\* unless stop() is called first
C36_RestartRunsUntilNextStop ==
    /\ [][Spawned => (/\ ~is_alive(thread)
                      /\ ~stopEvent'
                      /\ hist'[thread'] = NoHist)]_vars
    /\ [](NoStopSinceStart => ~stopEvent)
    /\ [][\A w \in Workers :
             (workers[w].pc = "loop_check" /\ workers'[w].pc # "loop_check"
              /\ workers'[w].pc # "exec")
             => stopEvent]_vars
    /\ \A w \in Workers :
           /\ (thread = w /\ workers[w].pc = "start")
              ~> (hist[w].connectCalls = 1)
           /\ (thread = w /\ workers[w].pc = "loop_check" /\ hist[w].execCalls = 0)
              ~> (hist[w].execCalls >= 1 \/ stopEvent)

\* a worker was started after the previous run closed its loop, with the
\* stop flag cleared
C36_Witness ==
    /\ thread # 0
    /\ workers[thread].pc = "start"
    /\ curLoop # 0
    /\ loopClosed
    /\ sessions # {}
    /\ ~stopEvent
    /\ owner.lastStart = "spawned"

\* the last publish call was a pose publish that called publish_robot_map:
\* its frame id differed from the frame id recorded for the robot
MapAttempted ==
    /\ pub.op = "publish_robot_pose"
    /\ pub.frame_id # pub.last

\* what the calls of publish_robot_map, direct or from a pose publish, do to
\* the record of last-published frame ids: the frame id is recorded when the
\* map was published, the record is as before when it was not, and the record
\* of a robot changes in no other way
RecordFollowsMapPublish ==
    /\ [](pub.op \in {"publish_robot_map", "publish_robot_pose"}
          => /\ Published("map") = 1
                => last_published_frame_ids[pub.robot_id] = pub.frame_id
             /\ Published("map") = 0
                => last_published_frame_ids[pub.robot_id] = pub.last
             /\ (pub.op = "publish_robot_map" /\ pub.frame_id \notin config_maps)
                => Published("map") = 0)
    /\ [][\A r \in Robots :
             last_published_frame_ids'[r] # last_published_frame_ids[r]
             => /\ pub'.robot_id = r
                /\ pub'.published # <<>>
                /\ pub'.published[1] = "map"]_vars

\* C37 (as stated): the frame id is recorded only when its map was published,
\* the record is unchanged otherwise, and the pose publish that follows a
\* publish_robot_map call that published nothing, for the same robot and
\* frame id, attempts the map
C37_UnpublishedFrameIsRetried ==
    /\ RecordFollowsMapPublish
    /\ [][(/\ pub.op = "publish_robot_map"
           /\ Published("map") = 0
           /\ pub'.op = "publish_robot_pose"
           /\ pub'.robot_id = pub.robot_id
           /\ pub'.frame_id = pub.frame_id)
          => pub'.frame_id # pub'.last]_vars

\* C37 (amended): the frame id is recorded only when its map was published
\* and the record is unchanged otherwise; every pose publish with a frame id
\* other than None that has no map in the configuration attempts the map;
\* a pose publish without a frame id attempts it only once a map has been
\* recorded for the robot
C37_UnpublishedNamedFrameIsRetried ==
    /\ RecordFollowsMapPublish
    /\ [](pub.op = "publish_robot_pose" /\ pub.frame_id \notin config_maps
          => /\ pub.frame_id # "None" => MapAttempted
             /\ pub.frame_id = "None" => (MapAttempted <=> pub.last # "None"))

\* a second pose publish in a row with a frame id that has no map, for a
\* robot whose recorded frame id is that of a map published before
C37_Witness ==
    /\ pub.op = "publish_robot_pose"
    /\ pub.frame_id = "frameC"
    /\ pub.pose_before = "frameC"
    /\ pub.last = "frameA"
    /\ last_published_frame_ids[pub.robot_id] = "frameA"
    /\ MapAttempted
    /\ pub.published = <<"pose">>

\* C38: parse_custom_command_args of the connector module and of the commands
\* module are one function raising one CommandFailure class: called with the
\* same argument they return the same result or raise an exception of the
\* same class (module and name) with the same summary and detail
C38_ConnectorAndCommandsParseAgree ==
    (parse.connector.kind # "none" /\ parse.commands.kind # "none")
    => /\ parse.connector.kind = parse.commands.kind
       /\ parse.connector.script_name = parse.commands.script_name
       /\ parse.connector.params = parse.commands.params
       /\ parse.connector.exc = parse.commands.exc

\* some managed robot's session failed to connect
SessionFailed == \E r \in managed.robot_ids : managed.connected[r] = "exc"

====
